---- MODULE Spec2Model ----
(***************************************************************************)
(* superside: the event relay of src/main.go.                              *)
(*                                                                         *)
(* Producers (updateHandler) put events on the bounded channel             *)
(* changesChan.  One goroutine (processUpdates) takes them off one at a    *)
(* time, links each into the container/ring history `changes` and then     *)
(* broadcasts it (tellListeners) to the mailboxes in `listeners`.          *)
(* stateHandler walks the ring (changes.Do) without any lock;              *)
(* websockHandler registers a mailbox (getListener), reads it in a loop    *)
(* and closes it when a write to its connection fails.                     *)
(*                                                                         *)
(* The ring is modelled at the level of the next/prev links of             *)
(* container/ring, one shared read or write per step, because neither the  *)
(* serializer nor stateHandler takes a lock around them.                   *)
(***************************************************************************)
EXTENDS Integers, Sequences, FiniteSets, TLC

\* ---------------------------------------------------------------- bounds
\* The source sets INITIAL_RING_SIZE = 20, BUFFER_SIZE = 25 and a mailbox of
\* 100 (make(chan Notification, 100)); the model keeps the names and scales
\* the sizes so that a full ring, a full queue and a full mailbox all occur.
INITIAL_RING_SIZE == 2
BUFFER_SIZE == 2
MAILBOX_SIZE == 2
\* Number of events the producers submit in a run.
MaxEvents == 3
\* Number of elements a single ring walk may collect before the model stops
\* following it (a walk whose start element was evicted never ends).
MaxWalk == 4

\* Streaming connections (websockHandler invocations), numbered in the order
\* the server accepts them.
Subs == {1, 2}
\* State.ClusterName of the posted events (src/bin/deployment-fixture.rb).
Clusters == {"nitro-dev"}

NIL == 0
Nodes == 1..MaxEvents
NoEvent == [ChangeEvent |-> 0, ClusterName |-> ""]
NoNote == [Event |-> <<"evt", 0>>, ClusterName |-> ""]
NoMessage == [Event |-> 0, ClusterName |-> ""]
NoWalk == [clean |-> FALSE, at |-> 0, changeHistory |-> <<>>]

VARIABLES
    changesChan,        \* chan catalog.StateChangedEvent (FIFO)
    sent,               \* number of events submitted so far
    changes,            \* *ring.Ring: the oldest element, NIL before the first
    next, prev,         \* ring links, NIL = a zero ring.Ring not yet init()ed
    ringSize,
    listeners,          \* []chan Notification, as the sequence of their owners
    listenLock,         \* sync.Mutex: "free", or held by "ser" or by a "sub"
    listenChan,         \* the mailboxes, by owner
    closed,             \* which mailboxes have been close()d
    loopVarPerIteration,\* the build: does `for evt := range` make a fresh evt
                        \* per iteration (go >= 1.22) or reuse one variable
    \* processUpdates
    pcSer, evt, received, newEntry, ra, rb, rn, rp, idx,
    effects,            \* history: the inserts and broadcasts begun, in order
    \* stateHandler
    pcSnap, wr, wp, changeHistory,
    overlap,            \* history: an insert step ran during this walk
    walkN,              \* history: inserts completed when this walk began
    seenAt,             \* history: what subscribers had observed by then
    lastWalk,           \* history: the walk before this one
    \* websockHandler, by subscriber
    pcSock, cur,
    conn,               \* the websocket connection: "open", or "closed" by the peer
    message,            \* the JSON made of cur, until it is written
    got,                \* history: the notifications s has taken, by iteration
    regAt,              \* history: broadcasts begun when s registered
    dropped             \* history: a send to s found its mailbox full

ringVars == <<changes, next, prev, ringSize>>
serVars  == <<pcSer, evt, received, newEntry, ra, rb, rn, rp, idx, effects>>
snapVars == <<pcSnap, wr, wp, changeHistory, overlap, walkN, seenAt, lastWalk>>
sockVars == <<pcSock, cur, conn, message, got, regAt, conn>>
fanVars  == <<listeners, listenLock, listenChan, closed, dropped>>
vars == <<changesChan, sent, ringVars, fanVars, loopVarPerIteration,
          serVars, snapVars, sockVars>>

\* An unrecovered panic in the processUpdates goroutine ends the process.
Alive == pcSer # "panic"

\* ------------------------------------------------------------ container/ring
\* r.Value of the element made for the k-th received event (a copy of evt).
Value(n) == received[n]

\* r.init(): a zero Ring becomes a one-element ring.
RingInit(nx, n) == [nx EXCEPT ![n] = n]

\* Links after a call of r.Next() / r.Prev(): both init() a zero element.
AfterTouch(lnk, n) == IF next[n] = NIL THEN RingInit(lnk, n) ELSE lnk
\* r.Next()
RingNext(n) == IF next[n] = NIL THEN n ELSE next[n]
\* r.Prev()
RingPrev(n) == IF next[n] = NIL THEN n ELSE prev[n]

\* The elements reached from r by following next until r comes round again,
\* as changes.Do visits them when nothing else runs; cut off after `fuel`.
RECURSIVE Follow(_, _, _)
Follow(r, p, fuel) ==
    IF p = r \/ p = NIL \/ fuel = 0 THEN <<>>
    ELSE <<p>> \o Follow(r, next[p], fuel - 1)

RingNodes ==
    IF changes = NIL THEN <<>>
    ELSE <<changes>> \o Follow(changes, RingNext(changes), MaxEvents)

\* ---------------------------------------------------------- Notification
\* NotificationFromEvent: Event is a POINTER to the ChangeEvent field of the
\* variable it is given, ClusterName is copied.  A pointer is <<"evt", k>> (the
\* loop variable evt of processUpdates, taken in iteration k) or
\* <<"event", v>> (the closure's own copy in stateHandler, holding v).
NotificationFromEvent(ptr, e) == [Event |-> ptr, ClusterName |-> e.ClusterName]

\* What the pointer leads to now.
Deref(ptr) ==
    IF ptr[1] = "event" THEN ptr[2]
    ELSE IF loopVarPerIteration THEN received[ptr[2]].ChangeEvent
    ELSE evt.ChangeEvent

\* The JSON of a Notification: the payload the pointer leads to when
\* json.Marshal runs, and the cluster name.
Marshal(n) == [Event |-> Deref(n.Event), ClusterName |-> n.ClusterName]

\* ------------------------------------------------------------------ Init
Init ==
    /\ changesChan = <<>>
    /\ sent = 0
    /\ changes = NIL
    /\ next = [n \in Nodes |-> NIL]
    /\ prev = [n \in Nodes |-> NIL]
    /\ ringSize = 0
    /\ listeners = <<>>
    /\ listenLock = "free"
    /\ listenChan = [s \in Subs |-> <<>>]
    /\ closed = [s \in Subs |-> FALSE]
    /\ loopVarPerIteration \in BOOLEAN
    /\ pcSer = "recv"
    /\ evt = NoEvent
    /\ received = <<>>
    /\ newEntry = NIL
    /\ ra = NIL /\ rb = NIL /\ rn = NIL /\ rp = NIL
    /\ idx = 0
    /\ effects = <<>>
    /\ pcSnap = "idle"
    /\ wr = NIL /\ wp = NIL
    /\ changeHistory = <<>>
    /\ overlap = FALSE
    /\ walkN = 0
    /\ seenAt = {}
    /\ lastWalk = NoWalk
    /\ pcSock = [s \in Subs |-> "idle"]
    /\ cur = [s \in Subs |-> NoNote]
    /\ conn = [s \in Subs |-> "open"]
    /\ message = [s \in Subs |-> NoMessage]
    /\ got = [s \in Subs |-> <<>>]
    /\ regAt = [s \in Subs |-> 0]
    /\ dropped = [s \in Subs |-> FALSE]

\* ------------------------------------------------------------ updateHandler
\* (mutant) a submission that gives up the event when the channel is full
updateHandlerDropping ==
    /\ Alive
    /\ sent < MaxEvents
    /\ \E c \in Clusters :
         changesChan' = IF Len(changesChan) < BUFFER_SIZE
                        THEN Append(changesChan, [ChangeEvent |-> sent + 1, ClusterName |-> c])
                        ELSE changesChan
    /\ sent' = sent + 1
    /\ UNCHANGED <<ringVars, fanVars, loopVarPerIteration, serVars, snapVars, sockVars>>
\* changesChan <- evt: blocks while the channel is full.
updateHandler ==
    /\ Alive
    /\ sent < MaxEvents
    /\ Len(changesChan) < BUFFER_SIZE
    /\ \E c \in Clusters :
         changesChan' = Append(changesChan, [ChangeEvent |-> sent + 1, ClusterName |-> c])
    /\ sent' = sent + 1
    /\ UNCHANGED <<ringVars, fanVars, loopVarPerIteration, serVars, snapVars, sockVars>>

\* ----------------------------------------------------------- processUpdates
\* The serializer is between `newEntry := ...` and tellListeners.
InsertPcs == {"L220", "L223", "L223n", "L223p", "L223w1", "L223w2", "L223w3",
              "L223w4", "L224", "L226", "L226w", "L227", "L227m", "L227n",
              "L227p", "L227w1", "L227w2", "L227w3", "L227w4", "L228", "L228w"}
InsertInProgress == pcSer \in InsertPcs
Walking == pcSnap \notin {"idle", "done"}
\* Inserts that have run to their end.
InsertsDone == IF InsertInProgress THEN Len(received) - 1 ELSE Len(received)

\* One step of the insert, from pc `at`.  `ok` says that the pointer the step
\* goes through is not nil; nil makes the goroutine panic (nil pointer
\* dereference).  A step is noted when a ring walk is under way.
SerStep(at, to, ok, effect) ==
    /\ Alive
    /\ pcSer = at
    /\ overlap' = (overlap \/ Walking)
    /\ UNCHANGED <<changesChan, sent, fanVars, loopVarPerIteration, evt, received,
                   newEntry, idx, effects, pcSnap, wr, wp, changeHistory, walkN, seenAt, lastWalk,
                   sockVars>>
    /\ IF ok
       THEN pcSer' = to /\ effect
       ELSE pcSer' = "panic" /\ UNCHANGED <<ringVars, ra, rb, rn, rp>>

\* (mutant) a receive that takes the newest element of the channel
ChanRecvNewest(q) == [val |-> q[Len(q)], rest |-> SubSeq(q, 1, Len(q) - 1)]
\* A receive from a buffered channel takes its oldest element.
ChanRecv(q) == [val |-> Head(q), rest |-> Tail(q)]

\* for evt := range changesChan; newEntry := &ring.Ring{Value: evt}
SerRecv ==
    /\ Alive
    /\ pcSer = "recv"
    /\ changesChan # <<>>
    /\ evt' = ChanRecv(changesChan).val
    /\ changesChan' = ChanRecv(changesChan).rest
    /\ received' = Append(received, ChanRecv(changesChan).val)
    /\ newEntry' = Len(received) + 1
    /\ pcSer' = IF ringSize = 0 THEN "L220"
                ELSE IF ringSize < INITIAL_RING_SIZE THEN "L223"
                ELSE "L226"
    /\ effects' = Append(effects, <<"insert", Len(received) + 1>>)
    /\ UNCHANGED <<sent, ringVars, fanVars, loopVarPerIteration, ra, rb, rn, rp, idx,
                   snapVars, sockVars>>

\* changes = newEntry; ringSize += 1
SerFirst ==
    SerStep("L220", "L232", TRUE,
            /\ changes' = newEntry
            /\ ringSize' = ringSize + 1
            /\ UNCHANGED <<next, prev, ra, rb, rn, rp>>)

\* x := r.Prev(), kept in ra
CallPrev(at, to, r) ==
    SerStep(at, to, r # NIL,
            /\ ra' = RingPrev(r)
            /\ next' = AfterTouch(next, r)
            /\ prev' = AfterTouch(prev, r)
            /\ UNCHANGED <<changes, ringSize, rb, rn, rp>>)
\* x := r.Next(), kept in ra
CallNext(at, to, r) ==
    SerStep(at, to, r # NIL,
            /\ ra' = RingNext(r)
            /\ next' = AfterTouch(next, r)
            /\ prev' = AfterTouch(prev, r)
            /\ UNCHANGED <<changes, ringSize, rb, rn, rp>>)
\* changes = ra
SetChanges(at, to) ==
    SerStep(at, to, TRUE,
            /\ changes' = ra
            /\ UNCHANGED <<next, prev, ringSize, ra, rb, rn, rp>>)

\* r.Link(s) of container/ring, one access per step:
\*   n := r.Next(); p := s.Prev(); r.next = s; s.prev = r; n.prev = p; p.next = n
LinkN(at, to, r) ==
    SerStep(at, to, r # NIL,
            /\ rn' = RingNext(r)
            /\ next' = AfterTouch(next, r)
            /\ prev' = AfterTouch(prev, r)
            /\ UNCHANGED <<changes, ringSize, ra, rb, rp>>)
LinkP(at, to, s) ==
    SerStep(at, to, s # NIL,
            /\ rp' = RingPrev(s)
            /\ next' = AfterTouch(next, s)
            /\ prev' = AfterTouch(prev, s)
            /\ UNCHANGED <<changes, ringSize, ra, rb, rn>>)
LinkW1(at, to, r, s) ==
    SerStep(at, to, r # NIL,
            /\ next' = [next EXCEPT ![r] = s]
            /\ UNCHANGED <<changes, prev, ringSize, ra, rb, rn, rp>>)
LinkW2(at, to, r, s) ==
    SerStep(at, to, s # NIL,
            /\ prev' = [prev EXCEPT ![s] = r]
            /\ UNCHANGED <<changes, next, ringSize, ra, rb, rn, rp>>)
LinkW3(at, to) ==
    SerStep(at, to, rn # NIL,
            /\ prev' = [prev EXCEPT ![rn] = rp]
            /\ UNCHANGED <<changes, next, ringSize, ra, rb, rn, rp>>)
LinkW4(at, to) ==
    SerStep(at, to, rp # NIL,
            /\ next' = [next EXCEPT ![rp] = rn]
            /\ UNCHANGED <<changes, prev, ringSize, ra, rb, rn, rp>>)

\* changes.Prev().Link(newEntry), lines 223 and 229: ra is changes.Prev().
SerAppendPrev == CallPrev("L223", "L223n", changes)
SerAppendLink ==
    \/ LinkN("L223n", "L223p", ra)
    \/ LinkP("L223p", "L223w1", newEntry)
    \/ LinkW1("L223w1", "L223w2", ra, newEntry)
    \/ LinkW2("L223w2", "L223w3", ra, newEntry)
    \/ LinkW3("L223w3", "L223w4")
    \/ LinkW4("L223w4", IF ringSize < INITIAL_RING_SIZE THEN "L224" ELSE "L232")
\* ringSize += 1 (line 224)
SerGrow ==
    SerStep("L224", "L232", TRUE,
            /\ ringSize' = ringSize + 1
            /\ UNCHANGED <<changes, next, prev, ra, rb, rn, rp>>)

\* changes = changes.Prev() (line 226)
SerBack ==
    \/ CallPrev("L226", "L226w", changes)
    \/ SetChanges("L226w", "L227")

\* changes.Unlink(1) = changes.Link(changes.Move(2)) (line 227): rb is Move(2).
\* Move: if r.next == nil { return r.init() }; r = r.next; r = r.next
SerUnlinkMove ==
    \/ SerStep("L227", IF next[changes] = NIL THEN "L227n" ELSE "L227m", changes # NIL,
               /\ rb' = RingNext(changes)
               /\ next' = AfterTouch(next, changes)
               /\ prev' = AfterTouch(prev, changes)
               /\ UNCHANGED <<changes, ringSize, ra, rn, rp>>)
    \/ SerStep("L227m", "L227n", rb # NIL,
               /\ rb' = next[rb]
               /\ UNCHANGED <<changes, next, prev, ringSize, ra, rn, rp>>)
SerUnlinkLink ==
    \/ LinkN("L227n", "L227p", changes)
    \/ LinkP("L227p", "L227w1", rb)
    \/ LinkW1("L227w1", "L227w2", changes, rb)
    \/ LinkW2("L227w2", "L227w3", changes, rb)
    \/ LinkW3("L227w3", "L227w4")
    \/ LinkW4("L227w4", "L228")

\* changes = changes.Next() (line 228), then line 229 as line 223
SerForward ==
    \/ CallNext("L228", "L228w", changes)
    \/ SetChanges("L228w", "L223")

\* ------------------------------------------------------------ tellListeners
\* listenLock.Lock(); the range expression `listeners` is read once
TellLock ==
    /\ Alive
    /\ pcSer = "L232"
    /\ listenLock = "free"
    /\ listenLock' = "ser"
    /\ idx' = 1
    /\ pcSer' = "L184"
    /\ effects' = Append(effects, <<"publish", Len(received)>>)
    /\ UNCHANGED <<changesChan, sent, ringVars, listeners, listenChan, closed, dropped,
                   loopVarPerIteration, evt, received, newEntry, ra, rb, rn, rp,
                   snapVars, sockVars>>

\* (mutant) a mailbox that hands out the newest notification first
TrySendFront(box, n) == IF Len(box) < MAILBOX_SIZE THEN <<n>> \o box ELSE box
\* (mutant) a send that puts the notification in twice where there is room
TrySendTwice(box, n) ==
    IF Len(box) + 2 <= MAILBOX_SIZE THEN box \o <<n, n>>
    ELSE IF Len(box) < MAILBOX_SIZE THEN Append(box, n) ELSE box
\* The mailbox after `select { case listener <- n: default: }`
TrySend(box, n) == IF Len(box) < MAILBOX_SIZE THEN Append(box, n) ELSE box

\* for _, listener := range listeners {
\*     select { case listener <- *NotificationFromEvent(evt): default: } }
\* A send on a closed channel panics, also inside a select with a default.
\* After the last listener: the deferred listenLock.Unlock().
TellSend ==
    /\ Alive
    /\ pcSer = "L184"
    /\ IF idx <= Len(listeners)
       THEN LET l == listeners[idx] IN
            /\ IF closed[l]
               THEN /\ pcSer' = "panic"
                    /\ UNCHANGED <<listenChan, idx, dropped>>
               ELSE /\ listenChan' = [listenChan EXCEPT ![l] =
                           TrySend(@, NotificationFromEvent(<<"evt", Len(received)>>, evt))]
                    /\ dropped' = [dropped EXCEPT ![l] = @ \/ Len(listenChan[l]) >= MAILBOX_SIZE]
                    /\ idx' = idx + 1
                    /\ pcSer' = "L184"
            /\ UNCHANGED listenLock
       ELSE /\ listenLock' = "free"
            /\ idx' = 0
            /\ pcSer' = "recv"
            /\ UNCHANGED <<listenChan, dropped>>
    /\ UNCHANGED <<changesChan, sent, ringVars, listeners, closed,
                   loopVarPerIteration, evt, received, newEntry, ra, rb, rn, rp,
                   effects, snapVars, sockVars>>

processUpdates ==
    \/ SerRecv \/ SerFirst
    \/ SerAppendPrev \/ SerAppendLink \/ SerGrow
    \/ SerBack \/ SerUnlinkMove \/ SerUnlinkLink \/ SerForward
    \/ TellLock \/ TellSend

Range(q) == {q[i] : i \in DOMAIN q}

\* The notifications subscriber s has taken or still has waiting, in the order
\* it reads them, each named by the iteration that made it.
Seen(s) ==
    got[s]
    \o (IF pcSock[s] = "L154" THEN <<cur[s].Event[2]>> ELSE <<>>)
    \o [i \in DOMAIN listenChan[s] |-> listenChan[s][i].Event[2]]

\* The events some subscriber has been sent a notification for.
Observed == UNION {Range(Seen(s)) : s \in Subs}

\* ------------------------------------------------------------- stateHandler
\* A step of the ring walk changes.Do(...); it is noted when an insert is
\* under way.
SnapStep(at, to) ==
    /\ Alive
    /\ pcSnap \in at
    /\ pcSnap' = to
    /\ UNCHANGED <<changesChan, sent, changes, ringSize, fanVars, loopVarPerIteration,
                   serVars, sockVars>>

\* changeHistory = append(changeHistory, *NotificationFromEvent(&event)),
\* event being the closure's own copy of the element's Value
Collect(hist, n) ==
    Append(hist, NotificationFromEvent(<<"event", Value(n).ChangeEvent>>, Value(n)))

\* changes.Do: r := changes; if r != nil { f(r.Value) ...
SnapStart ==
    /\ SnapStep({"idle", "done"}, IF changes = NIL THEN "done" ELSE "next")
    /\ wr' = changes
    /\ wp' = NIL
    /\ changeHistory' = IF changes = NIL THEN <<>> ELSE Collect(<<>>, changes)
    /\ overlap' = InsertInProgress
    /\ walkN' = InsertsDone
    /\ seenAt' = Observed
    /\ lastWalk' = IF pcSnap = "done" /\ ~overlap
                   THEN [clean |-> TRUE, at |-> walkN, changeHistory |-> changeHistory]
                   ELSE NoWalk
    /\ UNCHANGED <<next, prev>>

\* p := r.Next(): the test r.next == nil
SnapNextTest ==
    /\ SnapStep({"next"}, IF next[wr] = NIL THEN "init" ELSE "first")
    /\ overlap' = (overlap \/ InsertInProgress)
    /\ UNCHANGED <<next, prev, wr, wp, changeHistory, walkN, seenAt, lastWalk>>

\* r.init(): r.next = r, then r.prev = r, and p = r ends the walk
SnapInit ==
    \/ /\ SnapStep({"init"}, "init2")
       /\ next' = [next EXCEPT ![wr] = wr]
       /\ overlap' = (overlap \/ InsertInProgress)
       /\ UNCHANGED <<prev, wr, wp, changeHistory, walkN, seenAt, lastWalk>>
    \/ /\ SnapStep({"init2"}, "done")
       /\ prev' = [prev EXCEPT ![wr] = wr]
       /\ wp' = wr
       /\ overlap' = (overlap \/ InsertInProgress)
       /\ UNCHANGED <<next, wr, changeHistory, walkN, seenAt, lastWalk>>

\* One read of a next link: p := r.next at "first", p = p.next at "walk";
\* then the test p != r and f(p.Value).
SnapWalk ==
    /\ \E from \in {"first", "walk"} :
         LET q == IF from = "first" THEN next[wr] ELSE next[wp] IN
         /\ SnapStep({from}, IF q = wr THEN "done"
                             ELSE IF Len(changeHistory) >= MaxWalk THEN "cut"
                             ELSE "walk")
         /\ wp' = q
         /\ changeHistory' = IF q = wr \/ Len(changeHistory) >= MaxWalk
                             THEN changeHistory ELSE Collect(changeHistory, q)
    /\ overlap' = (overlap \/ InsertInProgress)
    /\ UNCHANGED <<next, prev, wr, walkN, seenAt, lastWalk>>

stateHandler == SnapStart \/ SnapNextTest \/ SnapInit \/ SnapWalk

\* json.Marshal(changeHistory): what a finished walk answers.
RECURSIVE MarshalAll(_)
MarshalAll(hist) ==
    IF hist = <<>> THEN <<>> ELSE <<Marshal(Head(hist))>> \o MarshalAll(Tail(hist))

\* ----------------------------------------------------------- websockHandler
\* Calls of tellListeners so far.
Broadcasts == Cardinality({i \in DOMAIN effects : effects[i][1] = "publish"})

SockStep(s, at, to) ==
    /\ Alive
    /\ pcSock[s] = at
    /\ pcSock' = [pcSock EXCEPT ![s] = to]
    /\ UNCHANGED <<changesChan, sent, ringVars, loopVarPerIteration, serVars, snapVars>>

\* conn, err := upgrader.Upgrade(w, r, nil): on an error the handler returns
\* before it has a mailbox; else getListener makes one.
SockUpgrade(s) ==
    /\ \A t \in Subs : t < s => pcSock[t] # "idle"
    /\ \E ok \in BOOLEAN : SockStep(s, "idle", IF ok THEN "L170" ELSE "done")
    /\ UNCHANGED <<fanVars, cur, message, got, regAt, conn>>

\* (mutant) a registration that replays the newest event of the history
getListenerReplay(s) ==
    \/ /\ SockStep(s, "L170", "L171")
       /\ listenLock = "free"
       /\ listenLock' = "sub"
       /\ UNCHANGED <<listeners, listenChan, closed, dropped, cur, message, got, regAt, conn>>
    \/ /\ SockStep(s, "L171", "L172")
       /\ listeners' = Append(listeners, s)
       /\ regAt' = [regAt EXCEPT ![s] = Broadcasts]
       /\ listenChan' = [listenChan EXCEPT ![s] =
              IF Broadcasts = 0 THEN <<>>
              ELSE <<NotificationFromEvent(<<"evt", Broadcasts>>, received[Broadcasts])>>]
       /\ UNCHANGED <<listenLock, closed, dropped, cur, message, got, conn>>
    \/ /\ SockStep(s, "L172", "L152")
       /\ listenLock' = "free"
       /\ UNCHANGED <<listeners, listenChan, closed, dropped, cur, message, got, regAt, conn>>
\* (mutant) a registration that does not wait for the lock
getListenerUnlocked(s) ==
    \/ /\ SockStep(s, "L170", "L171")
       /\ listenLock' = "sub"
       /\ UNCHANGED <<listeners, listenChan, closed, dropped, cur, message, got, regAt, conn>>
    \/ /\ SockStep(s, "L171", "L172")
       /\ listeners' = Append(listeners, s)
       /\ regAt' = [regAt EXCEPT ![s] = Broadcasts]
       /\ UNCHANGED <<listenLock, listenChan, closed, dropped, cur, message, got, conn>>
    \/ /\ SockStep(s, "L172", "L152")
       /\ listenLock' = "free"
       /\ UNCHANGED <<listeners, listenChan, closed, dropped, cur, message, got, regAt, conn>>
\* getListener: Lock; listeners = append(listeners, listenChan); Unlock
getListener(s) ==
    \/ /\ SockStep(s, "L170", "L171")
       /\ listenLock = "free"
       /\ listenLock' = "sub"
       /\ UNCHANGED <<listeners, listenChan, closed, dropped, cur, message, got, regAt, conn>>
    \/ /\ SockStep(s, "L171", "L172")
       /\ listeners' = Append(listeners, s)
       /\ regAt' = [regAt EXCEPT ![s] = Broadcasts]
       /\ UNCHANGED <<listenLock, listenChan, closed, dropped, cur, message, got, conn>>
    \/ /\ SockStep(s, "L172", "L152")
       /\ listenLock' = "free"
       /\ UNCHANGED <<listeners, listenChan, closed, dropped, cur, message, got, regAt, conn>>

\* evt := <-listenChan: blocks while the mailbox is empty
SockRecv(s) ==
    /\ SockStep(s, "L152", "L154")
    /\ listenChan[s] # <<>>
    /\ cur' = [cur EXCEPT ![s] = ChanRecv(listenChan[s]).val]
    /\ listenChan' = [listenChan EXCEPT ![s] = ChanRecv(listenChan[s]).rest]
    /\ UNCHANGED <<listeners, listenLock, closed, dropped, message, got, regAt, conn>>

\* message, err := json.Marshal(evt): follows evt.Event now.  (Marshal returns
\* no error for a Notification that json.Unmarshal produced, so `continue` is
\* never taken.)
SockMarshal(s) ==
    /\ SockStep(s, "L154", "L160")
    /\ message' = [message EXCEPT ![s] = Marshal(cur[s])]
    /\ got' = [got EXCEPT ![s] = Append(@, cur[s].Event[2])]
    /\ cur' = [cur EXCEPT ![s] = NoNote]
    /\ UNCHANGED <<fanVars, regAt, conn>>

\* conn.WriteMessage: it fails when the connection is gone, and on an error
\* the handler returns
SockWrite(s) ==
    /\ SockStep(s, "L160", IF conn[s] = "open" THEN "L152" ELSE "L149")
    /\ message' = [message EXCEPT ![s] = NoMessage]
    /\ UNCHANGED <<fanVars, cur, got, regAt, conn>>

\* defer close(listenChan); nothing takes listenChan out of listeners
SockClose(s) ==
    /\ SockStep(s, "L149", "done")
    /\ closed' = [closed EXCEPT ![s] = TRUE]
    /\ UNCHANGED <<listeners, listenLock, listenChan, dropped, cur, message, got, regAt, conn>>

\* The handler once it has its connection.
Handler(s) ==
    \/ getListener(s) \/ SockRecv(s)
    \/ SockMarshal(s) \/ SockWrite(s) \/ SockClose(s)

\* The peer closes the connection, or it breaks.  The handler never reads from
\* conn: only a failing conn.WriteMessage tells it.
ConnClose(s) ==
    /\ Alive
    /\ pcSock[s] \in {"L170", "L171", "L172", "L152", "L154", "L160"}
    /\ conn[s] = "open"
    /\ conn' = [conn EXCEPT ![s] = "closed"]
    /\ UNCHANGED <<changesChan, sent, ringVars, fanVars, loopVarPerIteration, serVars,
                   snapVars, pcSock, cur, message, got, regAt>>

\* One /listen request and its peer.
Connection(s) == SockUpgrade(s) \/ Handler(s) \/ ConnClose(s)

websockHandler == \E s \in Subs : Connection(s)

\* --------------------------------------------------------- specifications
\* The whole relay.  stateHandler and websockHandler share no variable of the
\* program: each meets only the serializer, so the two sides are also checked
\* apart.
Next == updateHandler \/ processUpdates \/ stateHandler \/ websockHandler
Spec == Init /\ [][Next]_vars

\* The history side: producers, the serializer and a /state request.
NextRing == updateHandler \/ processUpdates \/ stateHandler
SpecRing == Init /\ [][NextRing]_vars

\* The broadcast side: producers, the serializer and the /listen connections.
NextFan == updateHandler \/ processUpdates \/ websockHandler
SpecFan == Init /\ [][NextFan]_vars

\* The broadcast side under the go scheduler: a goroutine that can run does
\* run.  Producers and peers are not obliged to do anything.
SpecFanLive ==
    SpecFan /\ WF_vars(processUpdates) /\ \A s \in Subs : WF_vars(Handler(s))

\* Both sides with a single /listen connection: what a subscriber has been told
\* against what /state answers.
NextBoth == updateHandler \/ processUpdates \/ stateHandler \/ Connection(1)
SpecBoth == Init /\ [][NextBoth]_vars

\* ------------------------------------------------------------------ claims
\* The answer /state owes after j inserts: the last INITIAL_RING_SIZE of the
\* first j events received, oldest first, as Notifications' JSON.
Retained(j) ==
    LET lo == IF j > INITIAL_RING_SIZE THEN j - INITIAL_RING_SIZE + 1 ELSE 1 IN
    [i \in 1..(j - lo + 1) |->
        [Event |-> received[lo + i - 1].ChangeEvent,
         ClusterName |-> received[lo + i - 1].ClusterName]]

\* C1: a ring walk that runs while the serializer inserts answers with the
\* retained sequence as it was after some whole number of inserts: nothing
\* twice, nothing missing, nothing out of order.
C1_SnapshotNotTorn ==
    pcSnap = "done" =>
        \E j \in 0..Len(received) : MarshalAll(changeHistory) = Retained(j)

\* C4: after more inserts than the ring holds, a walk that no insert step
\* overlapped answers with exactly the most recent INITIAL_RING_SIZE events,
\* oldest first.
C4_SnapshotKeepsNewest ==
    (pcSnap = "done" /\ ~overlap /\ walkN > INITIAL_RING_SIZE) =>
        MarshalAll(changeHistory) = Retained(walkN)

\* C5: after at most INITIAL_RING_SIZE inserts, a walk that no insert step
\* overlapped answers with exactly the events inserted, in insertion order.
C5_SnapshotKeepsAll ==
    (pcSnap = "done" /\ ~overlap /\ walkN <= INITIAL_RING_SIZE) =>
        MarshalAll(changeHistory) = Retained(walkN)

\* The broadcasts begun so far, by iteration, in the order they began.
RECURSIVE PublishOrderOf(_)
PublishOrderOf(log) ==
    IF log = <<>> THEN <<>>
    ELSE IF Head(log)[1] = "publish" THEN <<Head(log)[2]>> \o PublishOrderOf(Tail(log))
    ELSE PublishOrderOf(Tail(log))
PublishOrder == PublishOrderOf(effects)

Registered(s) == s \in Range(listeners)
\* s is in its receive loop.
Reading(s) == pcSock[s] \in {"L172", "L152", "L154", "L160"}
PosOf(q, x) == CHOOSE i \in DOMAIN q : q[i] = x

\* C2: a broadcast that meets the mailbox of a subscriber that has torn down
\* delivers or skips; the serializer does not panic on it.
C2_PublishSurvivesTeardown ==
    ~(pcSer = "panic" /\ idx \in DOMAIN listeners /\ closed[listeners[idx]])

\* C3: once a subscriber's handler has returned, listeners no longer holds its
\* mailbox.
C3_UnregisteredOnReturn ==
    \A s \in Subs : pcSock[s] = "done" => ~Registered(s)

\* C6: every send of a broadcast appends to a mailbox with room, leaves a full
\* mailbox as it is, touches no other mailbox, and the broadcast goes on.
C6_PublishNeverBlocks ==
    [][(pcSer = "L184" /\ idx \in DOMAIN listeners /\ (pcSer' # pcSer \/ idx' # idx)) =>
        LET l == listeners[idx]
            n == NotificationFromEvent(<<"evt", Len(received)>>, evt) IN
        /\ pcSer' = "L184"
        /\ idx' = idx + 1
        /\ listenChan'[l] = IF Len(listenChan[l]) < MAILBOX_SIZE
                            THEN Append(listenChan[l], n) ELSE listenChan[l]
        /\ \A o \in Subs \ {l} : listenChan'[o] = listenChan[o]]_vars

\* C7: a subscriber in its receive loop whose mailbox was never found full has
\* taken, or has waiting, every broadcast begun since it registered, once each
\* and in order (the broadcast under way counts once it has passed s).
C7_ReceivesAll ==
    \A s \in Subs :
        (Registered(s) /\ Reading(s) /\ ~dropped[s]) =>
            LET underWay == pcSer = "L184" /\ idx <= PosOf(listeners, s)
                upTo == IF underWay THEN Broadcasts - 1 ELSE Broadcasts IN
            Seen(s) = SubSeq(PublishOrder, regAt[s] + 1, upTo)

\* C8: what a subscriber reads is a subsequence of the publish order.
C8_ReadsInPublishOrder ==
    \A s \in Subs :
        /\ Range(Seen(s)) \subseteq Range(PublishOrder)
        /\ \A i, j \in DOMAIN Seen(s) :
               i < j => PosOf(PublishOrder, Seen(s)[i]) < PosOf(PublishOrder, Seen(s)[j])
\* a subscriber has read two notifications and missed one
C8_Witness ==
    \E s \in Subs : Len(got[s]) >= 2 /\ dropped[s]

\* C9: the payload a subscriber reads for a notification is the payload of the
\* event that notification was published for.
C9_PayloadIsThePublishedOne ==
    \A s \in Subs :
        pcSock[s] = "L160" =>
            message[s].Event = received[got[s][Len(got[s])]].ChangeEvent

\* C10: events are taken in the order they were enqueued; the insert and the
\* broadcast of one event both begin before either of the next, in that
\* order; and between two events nothing of the last one is left to do.
C10_OneEventAtATime ==
    /\ \A k \in DOMAIN received : received[k].ChangeEvent = k
    /\ \A i \in DOMAIN effects :
           effects[i] = <<IF i % 2 = 1 THEN "insert" ELSE "publish", (i + 1) \div 2>>
    /\ pcSer = "recv" =>
           (Len(effects) = 2 * Len(received) /\ listenLock # "ser" /\ idx = 0)
\* every event went through, the last into a full ring and to a subscriber
C10_Witness ==
    /\ pcSer = "recv" /\ Len(received) = MaxEvents /\ Len(effects) = 2 * MaxEvents
    /\ Len(received) > INITIAL_RING_SIZE
    /\ \E s \in Subs : MaxEvents \in Range(Seen(s))

\* C11: the insert of an event is over before any subscriber is sent its
\* notification, and a walk that began after a subscriber was sent the
\* notification for e, and that no insert step overlapped, answers with e unless
\* e is no longer among the last INITIAL_RING_SIZE events inserted.
C11_HistoryThenBroadcast ==
    /\ \A k \in Observed : k <= InsertsDone
    /\ (pcSnap = "done" /\ ~overlap) =>
           \A k \in seenAt :
               k > walkN - INITIAL_RING_SIZE =>
                   \E i \in DOMAIN changeHistory :
                       Marshal(changeHistory[i]).Event = received[k].ChangeEvent

\* C12: the queue never holds more than BUFFER_SIZE events; every event
\* submitted is, in submission order, either taken by the serializer or still
\* in the queue; a submission completes only when the queue has room, so one
\* made while the queue is full waits until the serializer has taken an event;
\* and the queue gives up an event only to the serializer, the oldest first.
C12_BackpressureNoLoss ==
    /\ [](/\ Len(changesChan) <= BUFFER_SIZE
          /\ Len(received) + Len(changesChan) = sent
          /\ \A k \in 1..sent :
                 (received \o changesChan)[k].ChangeEvent = k)
    /\ [][sent' # sent =>
            /\ Len(changesChan) < BUFFER_SIZE
            /\ sent' = sent + 1
            /\ received' = received
            /\ Len(changesChan') = Len(changesChan) + 1
            /\ SubSeq(changesChan', 1, Len(changesChan)) = changesChan]_vars
    /\ [][(sent' = sent /\ changesChan' # changesChan) =>
            /\ changesChan # <<>>
            /\ changesChan' = Tail(changesChan)
            /\ received' = Append(received, Head(changesChan))]_vars
\* the last event was submitted after the serializer had made room, and the
\* queue is full again
C12_Witness ==
    /\ sent = MaxEvents
    /\ Len(changesChan) = BUFFER_SIZE
    /\ Len(received) >= 1
    /\ sent > BUFFER_SIZE

\* C13: a handler whose connection has been closed leaves its receive loop
\* and tears down (unless the process has died first).
C13_CloseEndsReadLoop ==
    \A s \in Subs :
        (conn[s] = "closed") ~> (pcSock[s] = "done" \/ ~Alive)

\* C14: a mailbox is empty until its registration is over, and every
\* notification its subscriber takes or has waiting is of a broadcast that
\* began after the registration.
C14_OnlyAfterRegistration ==
    \A s \in Subs :
        /\ pcSock[s] \in {"idle", "L170", "L171", "L172"} => Seen(s) = <<>>
        /\ \A k \in Range(Seen(s)) :
               /\ k \in Range(PublishOrder)
               /\ PosOf(PublishOrder, k) > regAt[s]
\* a subscriber that registered after a broadcast has read a later one
C14_Witness ==
    \E s \in Subs : regAt[s] >= 1 /\ Len(got[s]) >= 1

\* C15: no registration is between its Lock and its Unlock while a broadcast
\* is, and no two registrations are; and listeners holds the mailbox of every
\* registration that has returned, once, and no other.
C15_RegistrationExcluded ==
    LET InReg == {s \in Subs : pcSock[s] \in {"L171", "L172"}}
        InTell == idx >= 1
        Returned == {s \in Subs : pcSock[s] \in {"L152", "L154", "L160", "L149"}
                                  \/ (pcSock[s] = "done" /\ closed[s])} IN
    /\ Cardinality(InReg) + (IF InTell THEN 1 ELSE 0) <= 1
    /\ listenLock = (IF InTell THEN "ser" ELSE IF InReg # {} THEN "sub" ELSE "free")
    /\ \A s \in Returned : Cardinality({i \in DOMAIN listeners : listeners[i] = s}) = 1
    /\ Range(listeners) \subseteq Returned \cup {s \in Subs : pcSock[s] = "L172"}
\* every registration has returned, one of them after a broadcast
C15_Witness ==
    /\ Len(listeners) = Cardinality(Subs)
    /\ \A s \in Subs : pcSock[s] = "L152"
    /\ \E s \in Subs : regAt[s] >= 1

\* C16: between two inserts the ring holds as many elements as events have
\* been inserted, up to INITIAL_RING_SIZE and never more, and ringSize says
\* how many.
C16_BoundedOccupancy ==
    pcSer \in {"recv", "L232", "L184"} =>
        /\ Len(RingNodes) <= INITIAL_RING_SIZE
        /\ Len(RingNodes) = (IF Len(received) < INITIAL_RING_SIZE
                             THEN Len(received) ELSE INITIAL_RING_SIZE)
        /\ Len(RingNodes) = ringSize

\* The events the ring holds, as a walk from `changes` that nothing disturbs
\* finds them.
RingContent == [i \in DOMAIN RingNodes |-> Value(RingNodes[i])]

\* Of two walks that no insert step overlapped, with no insert between them,
\* the second answers as the first.
SnapshotIdempotent ==
    (pcSnap = "done" /\ ~overlap /\ lastWalk.clean /\ lastWalk.at = walkN) =>
        MarshalAll(changeHistory) = MarshalAll(lastWalk.changeHistory)

\* C17: no step of a ring walk changes what the ring holds, `changes`,
\* ringSize, the queue or a mailbox; and two walks with no insert between them
\* answer the same.
C17_SnapshotReadOnly ==
    /\ [][(pcSnap' # pcSnap \/ changeHistory' # changeHistory) =>
            /\ RingContent' = RingContent
            /\ UNCHANGED <<changes, ringSize, changesChan, listenChan>>]_vars
    /\ []SnapshotIdempotent

\* Following next from p comes to the element the walk began at.
RECURSIVE LeadsToStart(_, _)
LeadsToStart(p, fuel) ==
    /\ fuel > 0
    /\ p # NIL
    /\ (next[p] = wr \/ LeadsToStart(next[p], fuel - 1))

\* Nothing will write a ring link any more: every event has gone through.
Quiescent == sent = MaxEvents /\ changesChan = <<>> /\ pcSer = "recv"

\* A walk that is under way when the ring has come to rest can still end.
WalkCanEnd == (pcSnap = "walk" /\ Quiescent) => LeadsToStart(wp, MaxEvents)

\* C18: a ring walk visits at most INITIAL_RING_SIZE elements and comes back
\* to the element it began at, whatever the serializer does meanwhile.
C18_WalkTerminates ==
    /\ Len(changeHistory) <= INITIAL_RING_SIZE
    /\ pcSnap # "cut"
    /\ WalkCanEnd

\* The k-th event has been inserted and its broadcast has returned.
Published(k) == Len(received) > k \/ (Len(received) = k /\ pcSer = "recv")

\* C19: every event put in the queue is in the end inserted and broadcast; a
\* full queue gets room again; and the serializer never stops.
C19_IngestionLive ==
    /\ \A k \in 1..MaxEvents : (sent >= k) ~> Published(k)
    /\ (Len(changesChan) = BUFFER_SIZE) ~> (Len(changesChan) < BUFFER_SIZE)
    /\ []Alive

\* C20: a subscriber is sent no notification twice; a notification enters a
\* mailbox only in the one send its own broadcast makes to that mailbox, which
\* moves on whether the send took or not, so one that was dropped is not sent
\* again; and a subscriber that has emptied its mailbox cannot read.
C20_AtMostOnce ==
    /\ [](\A s \in Subs :
            /\ \A i, j \in DOMAIN Seen(s) : i # j => Seen(s)[i] # Seen(s)[j]
            /\ Cardinality({i \in DOMAIN listeners : listeners[i] = s}) <= 1
            /\ (pcSock[s] = "L152" /\ listenChan[s] = <<>>) => ~ENABLED SockRecv(s))
    /\ [][\A s \in Subs :
            \A k \in Range(Seen(s)') \ Range(Seen(s)) :
                /\ pcSer = "L184" /\ idx \in DOMAIN listeners /\ listeners[idx] = s
                /\ Len(listenChan[s]) < MAILBOX_SIZE
                /\ k = Len(received)
                /\ idx' = idx + 1]_vars
    /\ [][idx' # idx => (idx' = idx + 1 \/ (idx' = 0 /\ pcSer' = "recv"))]_vars
\* a subscriber missed a notification, has read all it was sent and waits
C20_Witness ==
    \E s \in Subs :
        /\ dropped[s]
        /\ pcSock[s] = "L152" /\ listenChan[s] = <<>>
        /\ Len(got[s]) >= MAILBOX_SIZE
        /\ pcSer = "recv" /\ changesChan = <<>> /\ sent = MaxEvents

====
